---- MODULE Spec2Model ----
(***************************************************************************)
(* Model of the LiDAR tile processing algorithms of 3d_geo_modeler:        *)
(*   - LazInfoToGPKG.processAlgorithm  (processing/create_laz_index.py)    *)
(*   - DeleteFeaturesAndLAZFiles.processAlgorithm (processing/delete_laz.py)*)
(*   - MergeLAZFiles.processAlgorithm      (processing/merge_laz.py)       *)
(*   - AssignCRSToFolder.processAlgorithm  (processing/assign_crs.py)      *)
(*   - LazToCopc.processAlgorithm          (processing/laz2cocp.py)        *)
(*   - DownloadFilesFromFTPS.processAlgorithm (processing/download_laz.py) *)
(*   - GeoFLow.processAlgorithm            (processing/GeoFlow.py)         *)
(* A spatial-reference text is modelled as the sequence of the clauses the *)
(* two regular expressions of create_laz_index.py can see in it: an        *)
(* AUTHORITY["EPSG","n"] clause, an AXIS["label",dir] clause, or any other *)
(* text.  The empty sequence is the empty string.                          *)
(***************************************************************************)
EXTENDS Integers, Sequences, FiniteSets, TLC

VARIABLES
    pc,                 \* position of the running algorithm
    feedback,           \* messages pushed to feedback / QgsMessageLog, in order
    error,              \* kind of the exception that left processAlgorithm, "" if none
    result,             \* the returned dict (a record), NoResult before the return
    \* ---- LazInfoToGPKG: instance attribute, locals of processAlgorithm
    first_crs,          \* self.first_crs
    writer,             \* the memory layer `writer`
    gpkg,               \* what QgsVectorFileWriter wrote to output_file
    idx,                \* number of directory entries the for loop has taken
    file_name,          \* the loop variable file_name
    wkt_sources,        \* the list wkt_sources
    k,                  \* position of the inner loop over wkt_sources
    epsg,               \* local epsg
    axis_order,         \* local axis_order
    boundary_data,      \* local boundary_data
    geometry,           \* local geometry
    \* ---- DeleteFeaturesAndLAZFiles
    has_layer,          \* iface.activeLayer() is a vector layer
    layer,              \* ids of the features in the active layer
    attr,               \* feature id -> value of the chosen attribute
    selection,          \* layer.selectedFeatures(), as a sequence of ids
    folder_exists,      \* os.path.exists(laz_folder)
    disk,               \* names of the files present in laz_folder / input folder
    confirm_delete,     \* the CONFIRM_DELETE parameter
    sel_pos,            \* number of selected features the for loop has taken
    features_to_delete, \* local features_to_delete
    laz_files_deleted,  \* local laz_files_deleted
    \* ---- MergeLAZFiles, LazToCopc
    confirm_merge,      \* the CONFIRM_MERGE parameter
    layer_crs,          \* layer.crs().postgisSrid() / the code of the CRS parameter
    laz_files,          \* local laz_files
    \* ---- AssignCRSToFolder, LazToCopc
    files,              \* local files, the listing of the input folder
    index,              \* the loop variable index / entries the loop has taken
    progress,           \* the values given to feedback.setProgress, in order
    \* ---- DownloadFilesFromFTPS
    credentials,        \* the FTP_USERNAME and FTP_PASSWORD parameters
    unpack_zip,         \* the UNPACK_ZIP parameter
    downloaded_files,   \* local downloaded_files
    \* ---- GeoFLow
    data_source,        \* layer.dataProvider().dataSourceUri() and whether its file exists
    parameters,         \* the parameters the control flow of GeoFLow depends on
    features,           \* local features, as a sequence of ids
    \* ---- the world outside the algorithms
    calls,              \* external calls made so far: pdal commands, ftps methods
    out_files           \* files in the output folder / the output file

buildVars == <<first_crs, writer, gpkg, idx, file_name, wkt_sources, k,
               epsg, axis_order, boundary_data, geometry>>
deleteVars == <<has_layer, layer, attr, selection, folder_exists, disk,
                confirm_delete, sel_pos, features_to_delete, laz_files_deleted>>
flowVars == <<data_source, parameters, features>>
toolVars == <<confirm_merge, layer_crs, laz_files, files, index, progress,
              credentials, unpack_zip, downloaded_files, calls, out_files,
              flowVars>>
vars == <<pc, feedback, error, result, buildVars, deleteVars, toolVars>>

(***************************************************************************)
(* Bounds of the model.                                                    *)
(***************************************************************************)
MaxTokens == 3      \* clauses in the spatial-reference texts of one tile
MaxPts == 1         \* points in one ring of a boundary
MaxFiles == 3       \* directory entries of the input folder
MaxFeatures == 3    \* features of the active layer

(***************************************************************************)
(* Python values.                                                          *)
(***************************************************************************)
None == 0                       \* epsg = None / self.first_crs = None
NumSources == 4                 \* entries of wkt_sources
Codes == {1, 2}                 \* EPSG codes appearing in the texts
Labels == {"Easting", "Northing"}

Auth(c) == [t |-> "AUTHORITY", code |-> c, label |-> ""]
Axis(l) == [t |-> "AXIS", code |-> 0, label |-> l]
Other == [t |-> "OTHER", code |-> 0, label |-> ""]
Tokens == {Auth(c) : c \in Codes} \cup {Axis(l) : l \in Labels} \cup {Other}

Texts(n) == UNION {[1..m -> Tokens] : m \in 0..n}

RECURSIVE SrcLists(_, _)
\* every list of n texts holding at most `budget` clauses in all
SrcLists(n, budget) ==
    IF n = 0 THEN {<<>>}
    ELSE UNION {{<<t>> \o rest : rest \in SrcLists(n - 1, budget - Len(t))}
                : t \in Texts(budget)}

Min(a, b) == IF a < b THEN a ELSE b

IsAuth(tok) == tok.t = "AUTHORITY"
IsAxis(tok) == tok.t = "AXIS"

\* re.findall(r'AUTHORITY\["EPSG","(\d+)"\]', wkt_string), after int()
EpsgMatches(wkt_string) ==
    LET clauses == SelectSeq(wkt_string, IsAuth)
    IN [i \in 1..Len(clauses) |-> clauses[i].code]

\* extract_axis_order(wkt_string)
extract_axis_order(wkt_string) ==
    LET clauses == SelectSeq(wkt_string, IsAxis)
    IN [i \in 1..Len(clauses) |-> clauses[i].label]

FirstMatch(matches) == matches[1]

\* matches[-1]
LastMatch(matches) == matches[Len(matches)]

\* One iteration of `for wkt_string in wkt_sources` (lines 136-143): the new
\* epsg and axis_order, and whether the loop breaks.
ScanBody(wkt_string, e, ax) ==
    IF wkt_string # <<>>
    THEN LET matches == EpsgMatches(wkt_string)
             e2 == IF matches # <<>> THEN LastMatch(matches) ELSE e
             ax2 == extract_axis_order(wkt_string)
         IN [epsg |-> e2, axis_order |-> ax2, brk |-> ax2 # <<>>]
    ELSE [epsg |-> e, axis_order |-> ax, brk |-> FALSE]

(***************************************************************************)
(* Boundary geometry.  A point is a pair <<x, y>>; a ring a sequence of    *)
(* points; boundary_json is {"type", "coordinates"}: for a Polygon the     *)
(* coordinates are a list of rings, for a MultiPolygon a list of polygons. *)
(***************************************************************************)
Pairs == {<<1, 2>>, <<2, 1>>}
Rings == UNION {[1..m -> Pairs] : m \in 1..MaxPts}

NoBoundary == [type |-> "None", rings |-> <<>>, polys |-> <<>>]
Boundaries ==
    {NoBoundary, [type |-> "Point", rings |-> <<>>, polys |-> <<>>]}
    \cup {[type |-> "Polygon", rings |-> c, polys |-> <<>>]
            : c \in {<<>>} \cup {<<r>> : r \in Rings}}
    \cup {[type |-> "MultiPolygon", rings |-> <<>>, polys |-> c]
            : c \in {<<>>} \cup {<< <<r>> >> : r \in Rings}}

NoGeometry == [kind |-> "None", polys |-> <<>>, valid |-> FALSE]

\* axis_order[:2]
FirstTwo(ax) == SubSeq(ax, 1, Min(2, Len(ax)))

\* QgsPointXY(x, y) and QgsPointXY(y, x) for a raw pair x, y
PointXY(p) == <<p[1], p[2]>>
PointYX(p) == <<p[2], p[1]>>

\* create_geometry(coordinates, axis_order), lines 92-105: the ring built from
\* coordinates[0], or the ValueError
create_geometry(coordinates, ax) ==
    IF FirstTwo(ax) = <<"Easting", "Northing">>
    THEN [raised |-> FALSE,
          ring |-> [m \in 1..Len(coordinates[1]) |-> PointXY(coordinates[1][m])]]
    ELSE IF FirstTwo(ax) = <<"Northing", "Easting">>
    THEN [raised |-> FALSE,
          ring |-> [m \in 1..Len(coordinates[1]) |-> PointYX(coordinates[1][m])]]
    ELSE [raised |-> TRUE, ring |-> <<>>]

\* the point built for one raw pair of a MultiPolygon ring, lines 171-172
MultiPoint(p, ax) ==
    IF FirstTwo(ax) = <<"Easting", "Northing">> THEN PointXY(p) ELSE PointYX(p)

\* the list `polygons` of lines 167-175
MultiPolygons(multi_coordinates, ax) ==
    [i \in 1..Len(multi_coordinates) |->
        [j \in 1..Len(multi_coordinates[i]) |->
            [m \in 1..Len(multi_coordinates[i][j]) |->
                MultiPoint(multi_coordinates[i][j][m], ax)]]]

\* Lines 153-176: the geometry built from boundary_data, or the ValueError of
\* create_geometry.  `valid` is what isGeosValid() will answer for it.
BoundaryGeometry(bd, ax, valid) ==
    IF bd.type = "Polygon" /\ bd.rings # <<>>
    THEN LET g == create_geometry(bd.rings, ax)
         IN [raised |-> g.raised,
             geometry |-> IF g.raised THEN NoGeometry
                          ELSE [kind |-> "Polygon", polys |-> << <<g.ring>> >>,
                                valid |-> valid]]
    ELSE IF bd.type = "MultiPolygon" /\ bd.polys # <<>>
    THEN [raised |-> FALSE,
          geometry |-> [kind |-> "MultiPolygon",
                        polys |-> MultiPolygons(bd.polys, ax), valid |-> valid]]
    ELSE [raised |-> FALSE, geometry |-> NoGeometry]

(***************************************************************************)
(* Values of the variables of an algorithm that is not running.            *)
(***************************************************************************)
NoResult == [kind |-> "None", files |-> 0, features |-> 0]
NoWriter == [open |-> FALSE, crs |-> None, features |-> <<>>]
NoGpkg == [written |-> 0, crs |-> None, features |-> <<>>]

IdleBuild ==
    /\ first_crs = None /\ writer = NoWriter /\ gpkg = NoGpkg
    /\ idx = 0 /\ file_name = <<>> /\ wkt_sources = <<>> /\ k = 0
    /\ epsg = None /\ axis_order = <<>> /\ boundary_data = NoBoundary /\ geometry = NoGeometry

IdleDelete ==
    /\ has_layer = FALSE /\ layer = {} /\ attr = <<>> /\ selection = <<>>
    /\ folder_exists = FALSE /\ disk = {} /\ confirm_delete = FALSE
    /\ sel_pos = 0 /\ features_to_delete = <<>> /\ laz_files_deleted = 0

NoSource == [path |-> "", layername |-> "", exists |-> FALSE]
NoParameters == [process_selection |-> 0, attribute_field_index |-> 0,
                 output_gpkg |-> ""]

IdleFlow ==
    /\ data_source = NoSource /\ parameters = NoParameters /\ features = <<>>

IdleTools ==
    /\ IdleFlow
    /\ confirm_merge = FALSE /\ layer_crs = None /\ laz_files = <<>>
    /\ files = <<>> /\ index = 0 /\ progress = <<>>
    /\ credentials = FALSE /\ unpack_zip = FALSE /\ downloaded_files = 0
    /\ calls = <<>> /\ out_files = {}

(***************************************************************************)
(* Metadata extraction of one tile, lines 126-176 of create_laz_index.py,  *)
(* on every list of spatial-reference texts and every boundary.            *)
(***************************************************************************)
InitExtract ==
    /\ pc = "x_scan" /\ feedback = <<>> /\ error = "" /\ result = NoResult
    /\ first_crs = None /\ writer = NoWriter /\ gpkg = NoGpkg
    /\ idx = 0 /\ file_name = <<>>
    /\ wkt_sources \in SrcLists(NumSources, MaxTokens)
    /\ k = 1 /\ epsg = None /\ axis_order = <<>>
    /\ boundary_data \in Boundaries
    /\ geometry = NoGeometry
    /\ IdleDelete
    /\ IdleTools

\* one iteration of the loop over wkt_sources
XScan ==
    /\ pc = "x_scan"
    /\ LET r == ScanBody(wkt_sources[k], epsg, axis_order)
       IN /\ epsg' = r.epsg
          /\ axis_order' = r.axis_order
          /\ IF r.brk \/ k = NumSources
             THEN pc' = "x_boundary" /\ k' = k
             ELSE pc' = "x_scan" /\ k' = k + 1
    /\ UNCHANGED <<feedback, error, result, first_crs, writer, gpkg, idx,
                   file_name, wkt_sources, boundary_data, geometry,
                   deleteVars, toolVars>>

\* the geometry of boundary_data, built without raising
XBoundary ==
    /\ pc = "x_boundary"
    /\ \E valid \in BOOLEAN :
          LET g == BoundaryGeometry(boundary_data, axis_order, valid)
          IN /\ ~g.raised
             /\ geometry' = g.geometry
    /\ pc' = "x_done"
    /\ UNCHANGED <<feedback, error, result, first_crs, writer, gpkg, idx,
                   file_name, wkt_sources, k, epsg, axis_order,
                   boundary_data, deleteVars, toolVars>>

\* create_geometry raises ValueError
XBoundaryRaise ==
    /\ pc = "x_boundary"
    /\ BoundaryGeometry(boundary_data, axis_order, TRUE).raised
    /\ pc' = "x_raised"
    /\ error' = "ValueError"
    /\ UNCHANGED <<feedback, result, buildVars, deleteVars, toolVars>>

NextExtract == XScan \/ XBoundary \/ XBoundaryRaise

SpecExtract == InitExtract /\ [][NextExtract]_vars

(***************************************************************************)
(* File names are sequences of characters.                                 *)
(***************************************************************************)
Digits == <<"1", "2", "3", "4", "5", "6", "7", "8", "9">>
Exts == {<<".", "l", "a", "z">>, <<".", "l", "a", "s">>, <<".", "L", "A", "Z">>,
         <<".", "L", "a", "s">>, <<".", "t", "x", "t">>}

\* the name of the i-th directory entry: names in one directory are distinct
FileName(i, ext) == <<Digits[i]>> \o ext

\* str.endswith(suffix)
EndsWith(s, suffix) ==
    /\ Len(s) >= Len(suffix)
    /\ SubSeq(s, Len(s) - Len(suffix) + 1, Len(s)) = suffix

\* file_name.endswith(('.laz', '.las')), line 109
IsTileName(name) ==
    \/ EndsWith(name, <<".", "l", "a", "z">>)
    \/ EndsWith(name, <<".", "l", "a", "s">>)

\* str.lower(), on the characters file names are made of
LowerChar(c) ==
    CASE c = "L" -> "l" [] c = "A" -> "a" [] c = "Z" -> "z" [] c = "S" -> "s"
      [] OTHER -> c
Lower(s) == [i \in 1..Len(s) |-> LowerChar(s[i])]

\* f.lower().endswith(('.las', '.laz')), assign_crs.py line 89
IsTileNameLower(name) == IsTileName(Lower(name))

\* boundaries a tile of the folder may report: one ring of one point
FolderBoundaries ==
    {NoBoundary, [type |-> "Point", rings |-> <<>>, polys |-> <<>>],
     [type |-> "Polygon", rings |-> <<>>, polys |-> <<>>],
     [type |-> "Polygon", rings |-> << << <<1, 2>> >> >>, polys |-> <<>>],
     [type |-> "MultiPolygon", rings |-> <<>>, polys |-> <<>>],
     [type |-> "MultiPolygon", rings |-> <<>>, polys |-> << << << <<1, 2>> >> >> >>]}

\* spatial-reference texts a tile of the folder may report: nothing, text
\* without clauses, or AUTHORITY clauses followed by AXIS clauses
FolderTexts ==
    {<<Other>>}
    \cup {pre \o ax :
            pre \in {<<>>, <<Auth(1)>>, <<Auth(2)>>, <<Auth(1), Auth(2)>>},
            ax \in {<<>>, <<Axis("Easting")>>,
                    <<Axis("Easting"), Axis("Northing")>>,
                    <<Axis("Northing"), Axis("Easting")>>}}

Msg(kind, name) == [kind |-> kind, file |-> name]

(***************************************************************************)
(* LazInfoToGPKG.processAlgorithm.  self.first_crs is set by __init__ and  *)
(* lives as long as the instance; everything else is local to one call.    *)
(* The locals of one file are dead once the loop continues and are reset   *)
(* there.  The texts of wkt_sources are inputs, read one per iteration.    *)
(* The attributes encoding and copc (lines 147-151) are copied from the    *)
(* metadata into the feature and decide nothing; they are left out.        *)
(***************************************************************************)
Init ==
    /\ pc = "idle" /\ feedback = <<>> /\ error = "" /\ result = NoResult
    /\ IdleBuild
    /\ IdleDelete
    /\ IdleTools

ResetLocals ==
    /\ file_name' = <<>> /\ k' = 0 /\ epsg' = None /\ axis_order' = <<>>
    /\ geometry' = NoGeometry

\* a call of processAlgorithm on the instance, the first one or a later one:
\* lines 72-83
StartBuild ==
    /\ pc \in {"idle", "b_done", "b_raised"}
    /\ writer' = NoWriter
    /\ gpkg' = NoGpkg
    /\ idx' = 0
    /\ feedback' = <<>> /\ error' = "" /\ result' = NoResult
    /\ ResetLocals
    /\ pc' = "b_list"
    /\ UNCHANGED <<first_crs, wkt_sources, boundary_data, deleteVars, toolVars>>

\* lines 108-111: the next entry of os.listdir(input_folder)
BNextFile ==
    /\ pc = "b_list"
    /\ idx < MaxFiles
    /\ idx' = idx + 1
    /\ \E ext \in Exts :
          LET name == FileName(idx + 1, ext)
          IN IF IsTileName(name)
             THEN /\ file_name' = name
                  /\ pc' = "b_pdal"
                  /\ feedback' = Append(feedback, Msg("processing", name))
             ELSE /\ file_name' = name
                  /\ pc' = "b_list"
                  /\ feedback' = feedback
    /\ UNCHANGED <<error, result, first_crs, writer, gpkg, wkt_sources, k,
                   epsg, axis_order, boundary_data, geometry, deleteVars, toolVars>>

\* the listing is exhausted: the for loop ends
BEndOfFolder ==
    /\ pc = "b_list"
    /\ pc' = "b_write"
    /\ UNCHANGED <<feedback, error, result, buildVars, deleteVars, toolVars>>

\* lines 114-122: pdal info exits non-zero
BPdalFail ==
    /\ pc = "b_pdal"
    /\ feedback' = Append(feedback, Msg("pdal_error", file_name))
    /\ ResetLocals
    /\ pc' = "b_list"
    /\ UNCHANGED <<error, result, first_crs, writer, gpkg, idx, wkt_sources,
                   boundary_data, deleteVars, toolVars>>

\* lines 114-135: pdal info succeeds
BPdalOk ==
    /\ pc = "b_pdal"
    /\ k' = 1 /\ epsg' = None /\ axis_order' = <<>>
    /\ pc' = "b_scan"
    /\ UNCHANGED <<feedback, error, result, first_crs, writer, gpkg, idx,
                   file_name, wkt_sources, boundary_data, geometry,
                   deleteVars, toolVars>>

\* lines 136-143: one iteration over wkt_sources
BScan ==
    /\ pc = "b_scan"
    /\ \E wkt_string \in FolderTexts :
          LET r == ScanBody(wkt_string, epsg, axis_order)
          IN /\ epsg' = r.epsg
             /\ axis_order' = r.axis_order
             /\ IF r.brk \/ k = NumSources
                THEN pc' = "b_boundary" /\ k' = k
                ELSE pc' = "b_scan" /\ k' = k + 1
    /\ UNCHANGED <<feedback, error, result, first_crs, writer, gpkg, idx,
                   file_name, wkt_sources, boundary_data, geometry,
                   deleteVars, toolVars>>

\* lines 145-176: encoding, copc and the boundary geometry
BBoundary ==
    /\ pc = "b_boundary"
    /\ \E bd \in FolderBoundaries, valid \in BOOLEAN :
          LET g == BoundaryGeometry(bd, axis_order, valid)
          IN /\ ~g.raised
             /\ geometry' = g.geometry
    /\ k' = 0 /\ axis_order' = <<>>
    /\ pc' = "b_accept"
    /\ UNCHANGED <<feedback, error, result, first_crs, writer, gpkg, idx,
                   file_name, wkt_sources, epsg, boundary_data, deleteVars, toolVars>>

\* lines 156-161 and 105: create_geometry raises ValueError, which nothing catches
BBoundaryRaise ==
    /\ pc = "b_boundary"
    /\ \E bd \in FolderBoundaries : BoundaryGeometry(bd, axis_order, TRUE).raised
    /\ error' = "ValueError"
    /\ pc' = "b_raised"
    /\ UNCHANGED <<feedback, result, buildVars, deleteVars, toolVars>>

InvalidGeometryNever(g) == FALSE

\* `not geometry or not geometry.isGeosValid()`, line 179
InvalidGeometry(g) == g = NoGeometry \/ ~g.valid

\* `not epsg`, line 183
MissingCrs(e) == e = None

CrsMismatchNever(e, crs) == FALSE

\* `epsg != self.first_crs`, line 195
CrsMismatch(e, crs) == e # crs

FeatureOfFolder == [filename |-> <<>>, epsg |-> epsg, geometry |-> geometry]

\* lines 203-205
Feature == [filename |-> file_name, epsg |-> epsg, geometry |-> geometry]

\* lines 179-206: the checks on the extracted values, and the feature added
BAccept ==
    /\ pc = "b_accept"
    /\ IF InvalidGeometry(geometry)
       THEN /\ feedback' = Append(feedback, Msg("invalid_geometry", file_name))
            /\ pc' = "b_list"
            /\ UNCHANGED <<first_crs, writer, error>>
       ELSE IF MissingCrs(epsg)
       THEN /\ feedback' = Append(feedback, Msg("missing_crs", file_name))
            /\ pc' = "b_list"
            /\ UNCHANGED <<first_crs, writer, error>>
       ELSE LET fixes == first_crs = None
                crs == IF fixes THEN epsg ELSE first_crs
                w == IF fixes
                     THEN [open |-> TRUE, crs |-> epsg, features |-> <<>>]
                     ELSE writer
            IN /\ first_crs' = crs
               /\ IF CrsMismatch(epsg, crs)
                  THEN /\ feedback' = Append(feedback, Msg("crs_mismatch", file_name))
                       /\ writer' = w
                       /\ pc' = "b_list"
                       /\ error' = error
                  ELSE IF ~w.open
                  THEN \* writer is None: writer.dataProvider() raises
                       /\ error' = "AttributeError"
                       /\ writer' = w
                       /\ pc' = "b_raised"
                       /\ feedback' = feedback
                  ELSE /\ writer' = [w EXCEPT !.features = Append(@, Feature)]
                       /\ pc' = "b_list"
                       /\ UNCHANGED <<feedback, error>>
    /\ IF pc' = "b_list" THEN ResetLocals
       ELSE UNCHANGED <<file_name, k, epsg, axis_order, geometry>>
    /\ UNCHANGED <<result, gpkg, idx, wkt_sources, boundary_data, deleteVars, toolVars>>

\* lines 208-221: the GeoPackage is written, or the error reported
BWrite ==
    /\ pc = "b_write"
    /\ IF writer.open
       THEN /\ gpkg' = [written |-> gpkg.written + 1, crs |-> writer.crs,
                        features |-> writer.features]
            /\ feedback' = Append(feedback, Msg("written", <<>>))
       ELSE /\ gpkg' = gpkg
            /\ feedback' = Append(feedback, Msg("no_valid_files", <<>>))
    /\ result' = [kind |-> "OUTPUT_FILE", files |-> 0, features |-> 0]
    /\ pc' = "b_done"
    /\ UNCHANGED <<error, first_crs, writer, idx, file_name, wkt_sources, k,
                   epsg, axis_order, boundary_data, geometry, deleteVars, toolVars>>

Next ==
    \/ StartBuild \/ BNextFile \/ BEndOfFolder \/ BPdalFail \/ BPdalOk \/ BScan
    \/ BBoundary \/ BBoundaryRaise \/ BAccept \/ BWrite

Spec == Init /\ [][Next]_vars

(***************************************************************************)
(* DeleteFeaturesAndLAZFiles.processAlgorithm.  The value of the chosen    *)
(* attribute is the name of a file, the empty string, or NULL.             *)
(***************************************************************************)
Files == {"a.laz", "b.laz"}
AttrValues == Files \cup {"", "NULL"}

RECURSIVE Ascending(_)
\* the elements of a set of integers, in ascending order
Ascending(S) ==
    IF S = {} THEN <<>>
    ELSE LET m == CHOOSE x \in S : \A y \in S : x <= y
         IN <<m>> \o Ascending(S \ {m})

Elems(seq) == {seq[i] : i \in DOMAIN seq}

InitDelete ==
    /\ pc = "d_start" /\ feedback = <<>> /\ error = "" /\ result = NoResult
    /\ IdleBuild
    /\ IdleTools
    /\ has_layer \in BOOLEAN
    /\ IF has_layer
       THEN /\ layer = 1..MaxFeatures
            /\ attr \in [1..MaxFeatures -> AttrValues]
            /\ \E S \in SUBSET (1..MaxFeatures) : selection = Ascending(S)
       ELSE layer = {} /\ attr = <<>> /\ selection = <<>>
    /\ folder_exists \in BOOLEAN
    /\ IF folder_exists THEN disk \in SUBSET Files ELSE disk = {}
    /\ confirm_delete \in BOOLEAN
    /\ sel_pos = 0 /\ features_to_delete = <<>> /\ laz_files_deleted = 0

PreconditionErrorNoConfirm ==
    IF ~has_layer THEN "no_layer"
    ELSE IF ~folder_exists THEN "no_folder"
    ELSE IF selection = <<>> THEN "no_selection"
    ELSE ""

PreconditionErrorConfirmFirst ==
    IF ~has_layer THEN "no_layer"
    ELSE IF ~folder_exists THEN "no_folder"
    ELSE IF ~confirm_delete THEN "not_confirmed"
    ELSE IF selection = <<>> THEN "no_selection"
    ELSE ""

\* lines 86-110: the QgsProcessingException raised before the loop, "" if none
PreconditionError ==
    IF ~has_layer THEN "no_layer"
    ELSE IF ~folder_exists THEN "no_folder"
    ELSE IF selection = <<>> THEN "no_selection"
    ELSE IF ~confirm_delete THEN "not_confirmed"
    ELSE ""

\* lines 86-116
DPreconditions ==
    /\ pc = "d_start"
    /\ IF PreconditionError # ""
       THEN /\ error' = PreconditionError
            /\ pc' = "d_raised"
            /\ feedback' = feedback
       ELSE /\ error' = error
            /\ pc' = "d_loop"
            /\ feedback' = Append(feedback, Msg("processing_selected", Len(selection)))
    /\ sel_pos' = 0 /\ features_to_delete' = <<>> /\ laz_files_deleted' = 0
    /\ UNCHANGED <<result, buildVars, toolVars, has_layer, layer, attr, selection,
                   folder_exists, disk, confirm_delete>>

\* the feature the loop takes next, and laz_filename (line 119)
CurFeature == selection[sel_pos + 1]
CurName == attr[CurFeature]
InLoop == pc = "d_loop" /\ sel_pos < Len(selection)
\* os.path.exists(laz_path): join(laz_folder, "") is the folder itself
PathExists(name) == name = "" \/ name \in disk

\* line 120: os.path.join(laz_folder, NULL) raises TypeError, outside the try
DNullName ==
    /\ InLoop
    /\ CurName = "NULL"
    /\ error' = "TypeError"
    /\ pc' = "d_raised"
    /\ sel_pos' = sel_pos + 1
    /\ UNCHANGED <<feedback, result, buildVars, toolVars, has_layer, layer, attr, selection,
                   folder_exists, disk, confirm_delete, features_to_delete,
                   laz_files_deleted>>

\* lines 125-127: the file does not exist
DSkipMissing ==
    /\ InLoop
    /\ CurName # "NULL"
    /\ ~PathExists(CurName)
    /\ feedback' = Append(feedback, Msg("missing", CurFeature))
    /\ sel_pos' = sel_pos + 1
    /\ UNCHANGED <<pc, error, result, buildVars, toolVars, has_layer, layer, attr, selection,
                   folder_exists, disk, confirm_delete, features_to_delete,
                   laz_files_deleted>>

\* lines 129-136: os.remove succeeds
DRemoveOk ==
    /\ InLoop
    /\ CurName \in disk
    /\ disk' = disk \ {CurName}
    /\ laz_files_deleted' = laz_files_deleted + 1
    /\ features_to_delete' = Append(features_to_delete, CurFeature)
    /\ feedback' = Append(feedback, Msg("deleted_file", CurFeature))
    /\ sel_pos' = sel_pos + 1
    /\ UNCHANGED <<pc, error, result, buildVars, toolVars, has_layer, layer, attr, selection,
                   folder_exists, confirm_delete>>

DRemoveFailMarks ==
    /\ InLoop
    /\ CurName # "NULL"
    /\ PathExists(CurName)
    /\ features_to_delete' = Append(features_to_delete, CurFeature)
    /\ feedback' = Append(feedback, Msg("remove_failed", CurFeature))
    /\ sel_pos' = sel_pos + 1
    /\ UNCHANGED <<pc, error, result, buildVars, toolVars, has_layer, layer, attr, selection,
                   folder_exists, disk, confirm_delete, laz_files_deleted>>

DRemoveFailCounts ==
    /\ InLoop
    /\ CurName # "NULL"
    /\ PathExists(CurName)
    /\ laz_files_deleted' = laz_files_deleted + 1
    /\ feedback' = Append(feedback, Msg("remove_failed", CurFeature))
    /\ sel_pos' = sel_pos + 1
    /\ UNCHANGED <<pc, error, result, buildVars, toolVars, has_layer, layer, attr, selection,
                   folder_exists, disk, confirm_delete, features_to_delete>>

\* lines 129-138: os.remove raises (a directory, a file that cannot be removed)
DRemoveFail ==
    /\ InLoop
    /\ CurName # "NULL"
    /\ PathExists(CurName)
    /\ feedback' = Append(feedback, Msg("remove_failed", CurFeature))
    /\ sel_pos' = sel_pos + 1
    /\ UNCHANGED <<pc, error, result, buildVars, toolVars, has_layer, layer, attr, selection,
                   folder_exists, disk, confirm_delete, features_to_delete,
                   laz_files_deleted>>

DEditSelection ==
    /\ pc = "d_loop"
    /\ sel_pos = Len(selection)
    /\ IF selection # <<>>
       THEN /\ \E committed \in BOOLEAN :
                  layer' = IF committed THEN layer \ Elems(selection)
                           ELSE layer
            /\ feedback' = Append(feedback,
                                  Msg("deleted_features", Len(features_to_delete)))
       ELSE /\ layer' = layer
            /\ feedback' = Append(feedback, Msg("no_features_deleted", 0))
    /\ result' = [kind |-> "DELETED", files |-> laz_files_deleted,
                  features |-> Len(features_to_delete)]
    /\ pc' = "d_done"
    /\ UNCHANGED <<error, buildVars, toolVars, has_layer, attr, selection, folder_exists,
                   disk, confirm_delete, sel_pos, features_to_delete,
                   laz_files_deleted>>

\* lines 140-151: the marked features are deleted from the layer, whose edit
\* may be refused (the return values are not looked at), and the counts returned
DEdit ==
    /\ pc = "d_loop"
    /\ sel_pos = Len(selection)
    /\ IF features_to_delete # <<>>
       THEN /\ \E committed \in BOOLEAN :
                  layer' = IF committed THEN layer \ Elems(features_to_delete)
                           ELSE layer
            /\ feedback' = Append(feedback,
                                  Msg("deleted_features", Len(features_to_delete)))
       ELSE /\ layer' = layer
            /\ feedback' = Append(feedback, Msg("no_features_deleted", 0))
    /\ result' = [kind |-> "DELETED", files |-> laz_files_deleted,
                  features |-> Len(features_to_delete)]
    /\ pc' = "d_done"
    /\ UNCHANGED <<error, buildVars, toolVars, has_layer, attr, selection, folder_exists,
                   disk, confirm_delete, sel_pos, features_to_delete,
                   laz_files_deleted>>

NextDelete ==
    \/ DPreconditions \/ DNullName \/ DSkipMissing \/ DRemoveOk \/ DRemoveFail
    \/ DEdit

SpecDelete == InitDelete /\ [][NextDelete]_vars

(***************************************************************************)
(* Properties of the metadata extraction (SpecExtract).                    *)
(***************************************************************************)
SetMax(S) == CHOOSE x \in S : \A y \in S : y <= x
HasAuth(text) == \E p \in DOMAIN text : IsAuth(text[p])
\* the texts the loop over wkt_sources has examined so far
Examined == 1..(IF pc = "x_scan" THEN k - 1 ELSE k)

\* C4: the resolved EPSG code is the code of the last AUTHORITY["EPSG","n"]
\* clause of the text it is taken from (the last examined text that has such
\* a clause), never of an earlier clause of that text; it is None exactly
\* when no examined text has such a clause.
C4_EpsgIsLastClause ==
    LET withAuth == {j \in Examined : HasAuth(wkt_sources[j])}
    IN IF withAuth = {}
       THEN epsg = None
       ELSE LET text == wkt_sources[SetMax(withAuth)]
                last == SetMax({p \in DOMAIN text : IsAuth(text[p])})
            IN epsg = text[last].code

\* a text with two clauses of different codes has been resolved to the later
C4_Witness ==
    /\ pc = "x_done"
    /\ k = 1
    /\ \E p, q \in DOMAIN wkt_sources[1] :
          /\ p < q
          /\ IsAuth(wkt_sources[1][p]) /\ IsAuth(wkt_sources[1][q])
          /\ wkt_sources[1][p].code = 1 /\ wkt_sources[1][q].code = 2
    /\ epsg = 2

HasCoordinates(bd) ==
    \/ bd.type = "Polygon" /\ bd.rings # <<>>
    \/ bd.type = "MultiPolygon" /\ bd.polys # <<>>
\* the raw coordinates as a list of polygons, every pair kept or swapped
RawPolys(bd, swap) ==
    LET raw == IF bd.type = "Polygon" THEN << <<bd.rings[1]>> >> ELSE bd.polys
    IN [i \in DOMAIN raw |-> [j \in DOMAIN raw[i] |->
           [m \in DOMAIN raw[i][j] |->
               IF swap THEN <<raw[i][j][m][2], raw[i][j][m][1]>>
               ELSE raw[i][j][m]]]]

\* C5: for a Polygon and for a MultiPolygon boundary alike, (Easting,
\* Northing) keeps every raw pair (x, y), (Northing, Easting) makes it (y, x),
\* and any other first two labels, the empty list included, build no geometry.
C5_AxisOrderDecidesPoints ==
    (pc \in {"x_done", "x_raised"} /\ HasCoordinates(boundary_data)) =>
        IF FirstTwo(axis_order) = <<"Easting", "Northing">>
        THEN geometry.polys = RawPolys(boundary_data, FALSE)
        ELSE IF FirstTwo(axis_order) = <<"Northing", "Easting">>
        THEN geometry.polys = RawPolys(boundary_data, TRUE)
        ELSE geometry = NoGeometry

(***************************************************************************)
(* Properties of the catalog build (Spec).                                 *)
(***************************************************************************)
HasMsg(kind) == \E m \in DOMAIN feedback : feedback[m].kind = kind
\* the current file has a valid boundary geometry and an EPSG code
PassesChecks == geometry.kind # "None" /\ geometry.valid /\ epsg # None
\* the step skips the current file with one report about it and nothing else
SkippedWithReport ==
    /\ pc' = "b_list"
    /\ Len(feedback') = Len(feedback) + 1
    /\ feedback'[Len(feedback')].file = file_name
    /\ writer' = writer /\ first_crs' = first_crs /\ error' = error

\* C1: every record of the catalog layer, and of the written catalog, has the
\* epsg of the catalog CRS fixed for the build, which is self.first_crs.
C1_SameEpsg ==
    /\ \A i \in DOMAIN writer.features :
          /\ writer.features[i].epsg = writer.crs
          /\ writer.features[i].epsg = first_crs
    /\ \A i \in DOMAIN gpkg.features : gpkg.features[i].epsg = gpkg.crs

\* two records were accepted and a file of another EPSG was skipped
C1_Witness ==
    /\ Len(writer.features) >= 2
    /\ HasMsg("crs_mismatch")

C3_PerFileFailureSkips ==
    [][/\ (pc = "b_pdal" /\ pc' # "b_scan") => SkippedWithReport
       /\ pc = "b_boundary" => pc' # "b_raised"
       /\ (pc = "b_accept" /\ ~PassesChecks) => SkippedWithReport
      ]_vars

BuildEnded == pc \in {"b_done", "b_raised"}

\* C6: a build that accepted no record reports an error and writes nothing;
\* a build that accepted a record has written the catalog exactly once when
\* it ends, and writes it only after the last file.
C6_WrittenIffAccepted ==
    /\ BuildEnded =>
          IF writer.features = <<>>
          THEN gpkg.written = 0 /\ (HasMsg("no_valid_files") \/ error # "")
          ELSE gpkg.written = 1 /\ gpkg.features = writer.features
    /\ ~BuildEnded => gpkg.written = 0

\* C7: a directory entry is processed as a tile exactly when its name ends in
\* .las or .laz compared case-insensitively.
C7_SuffixIgnoresCase ==
    [][(pc = "b_list" /\ idx' = idx + 1) =>
          (pc' = "b_pdal" <=> IsTileNameLower(file_name'))]_vars

(***************************************************************************)
(* Properties of the delete operation (SpecDelete).                        *)
(***************************************************************************)
\* C8: with the confirmation flag false, the selection empty or the folder
\* missing, the run ends in a precondition error at its first step and no
\* step of it removes a file or deletes a record.
C8_PreconditionsGuard ==
    [][(~confirm_delete \/ selection = <<>> \/ ~folder_exists) =>
          /\ disk' = disk /\ layer' = layer
          /\ pc = "d_start" =>
                /\ pc' = "d_raised"
                /\ error' \in {"no_layer", "no_folder", "no_selection",
                               "not_confirmed"}
      ]_vars

\* an unconfirmed run over a selection with a file on disk has ended in the error
C8_Witness ==
    /\ pc = "d_raised" /\ error = "not_confirmed"
    /\ \E i \in DOMAIN selection : attr[selection[i]] \in disk

\* C9: an id is appended to features_to_delete in exactly the steps that
\* remove the file of that selected record; the layer loses only ids of
\* features_to_delete, so a record whose file was missing or whose removal
\* raised stays in the layer.
C9_MarkedIffRemoved ==
    [][/\ (pc = "d_loop" /\ features_to_delete' # features_to_delete) =>
            /\ features_to_delete' = Append(features_to_delete, CurFeature)
            /\ CurName \in disk /\ CurName \notin disk'
       /\ disk' # disk =>
            /\ disk' = disk \ {CurName}
            /\ features_to_delete' = Append(features_to_delete, CurFeature)
       /\ layer' # layer => (layer \ layer') \subseteq Elems(features_to_delete)
       /\ \A m \in DOMAIN feedback' :
            feedback'[m].kind \in {"missing", "remove_failed"} =>
                /\ feedback'[m].file \notin Elems(features_to_delete')
                /\ feedback'[m].file \in layer'
      ]_vars

\* one record was deleted with its file, one was kept because its file was
\* missing and one because its removal raised
C9_Witness ==
    /\ pc = "d_done"
    /\ \E i \in Elems(features_to_delete) : i \notin layer
    /\ \E m \in DOMAIN feedback : feedback[m].kind = "missing"
    /\ \E m \in DOMAIN feedback : feedback[m].kind = "remove_failed"

C11_RecordFailureIsolated ==
    [][InLoop => /\ pc' = "d_loop"
                 /\ error' = ""
                 /\ sel_pos' = sel_pos + 1
      ]_vars

(***************************************************************************)
(* MergeLAZFiles.processAlgorithm.  A pdal command is the list of its      *)
(* arguments; an argument is a word, a path made by os.path.join, or the   *)
(* a_srs option with its EPSG code.                                        *)
(***************************************************************************)
Word(w) == [kind |-> "word", dir |-> "", text |-> w, code |-> 0]
\* os.path.join(dir, name)
Join(dir, name) == [kind |-> "path", dir |-> dir, text |-> name, code |-> 0]
\* line 142: f"--writers.copc.a_srs=EPSG:{code}"
SrsOption(code) ==
    [kind |-> "option", dir |-> "", text |-> "--writers.copc.a_srs=EPSG:", code |-> code]
\* the OUTPUT_FILE parameter
output_file == Join("", "merged.copc.laz")

InitMerge ==
    /\ pc = "m_start" /\ feedback = <<>> /\ error = "" /\ result = NoResult
    /\ IdleBuild
    /\ IdleFlow
    /\ has_layer \in BOOLEAN
    /\ IF has_layer
       THEN /\ layer = 1..MaxFeatures
            /\ attr \in [1..MaxFeatures -> AttrValues]
            /\ \E S \in SUBSET (1..MaxFeatures) : selection = Ascending(S)
            /\ layer_crs \in Codes
       ELSE layer = {} /\ attr = <<>> /\ selection = <<>> /\ layer_crs = None
    /\ folder_exists = TRUE
    /\ disk \in SUBSET Files
    /\ confirm_delete = FALSE
    /\ sel_pos = 0 /\ features_to_delete = <<>> /\ laz_files_deleted = 0
    /\ confirm_merge \in BOOLEAN
    /\ laz_files = <<>>
    /\ files = <<>> /\ index = 0 /\ progress = <<>>
    /\ credentials = FALSE /\ unpack_zip = FALSE /\ downloaded_files = 0
    /\ calls = <<>> /\ out_files = {}

MergePreconditionErrorNoGate ==
    IF ~has_layer THEN "no_layer"
    ELSE ""

\* lines 98-118: the QgsProcessingException raised before the loop, "" if none
MergePreconditionError ==
    IF ~has_layer THEN "no_layer"
    ELSE IF ~confirm_merge THEN "not_confirmed"
    ELSE IF selection = <<>> THEN "no_selection"
    ELSE ""

\* lines 98-120
MPreconditions ==
    /\ pc = "m_start"
    /\ IF MergePreconditionError # ""
       THEN error' = MergePreconditionError /\ pc' = "m_raised"
       ELSE error' = error /\ pc' = "m_loop"
    /\ sel_pos' = 0 /\ laz_files' = <<>>
    /\ UNCHANGED <<feedback, result, buildVars, has_layer, layer, attr, selection,
                   folder_exists, disk, confirm_delete, features_to_delete,
                   laz_files_deleted, confirm_merge, flowVars, layer_crs, files, index,
                   progress, credentials, unpack_zip, downloaded_files, calls,
                   out_files>>

InMergeLoop == pc = "m_loop" /\ sel_pos < Len(selection)
\* line 124, negated: the filename is not empty and its path exists
Resolvable(name) == name # "" /\ name \in disk

\* line 123: os.path.join(folder_path, NULL) raises TypeError before the test
\* of line 124
MNullName ==
    /\ InMergeLoop
    /\ CurName = "NULL"
    /\ error' = "TypeError"
    /\ pc' = "m_raised"
    /\ sel_pos' = sel_pos + 1
    /\ UNCHANGED <<feedback, result, buildVars, has_layer, layer, attr, selection,
                   folder_exists, disk, confirm_delete, features_to_delete,
                   laz_files_deleted, toolVars>>

\* lines 124-126
MSkip ==
    /\ InMergeLoop
    /\ CurName # "NULL"
    /\ ~Resolvable(CurName)
    /\ feedback' = Append(feedback, Msg("missing", CurFeature))
    /\ sel_pos' = sel_pos + 1
    /\ UNCHANGED <<pc, error, result, buildVars, has_layer, layer, attr, selection,
                   folder_exists, disk, confirm_delete, features_to_delete,
                   laz_files_deleted, toolVars>>

\* line 127
MCollect ==
    /\ InMergeLoop
    /\ CurName # "NULL"
    /\ Resolvable(CurName)
    /\ laz_files' = Append(laz_files, Join("folder_path", CurName))
    /\ sel_pos' = sel_pos + 1
    /\ UNCHANGED <<pc, feedback, error, result, buildVars, has_layer, layer, attr,
                   selection, folder_exists, disk, confirm_delete,
                   features_to_delete, laz_files_deleted, confirm_merge, flowVars,
                   layer_crs, files, index, progress, credentials, unpack_zip,
                   downloaded_files, calls, out_files>>

MergeLoopEnded == pc = "m_loop" /\ sel_pos = Len(selection)

\* lines 129-130
MTooFew ==
    /\ MergeLoopEnded
    /\ Len(laz_files) < 2
    /\ error' = "too_few"
    /\ pc' = "m_raised"
    /\ UNCHANGED <<feedback, result, buildVars, deleteVars, toolVars>>

\* lines 135-143
MergeCommand ==
    <<Word("pdal"), Word("merge")>> \o laz_files \o <<output_file>>
        \o <<SrsOption(layer_crs)>>

\* lines 132-158: pdal merge exits with 0
MRunOk ==
    /\ MergeLoopEnded
    /\ Len(laz_files) >= 2
    /\ calls' = Append(calls, MergeCommand)
    /\ out_files' = out_files \cup {output_file}
    /\ feedback' = feedback \o <<Msg("files_to_merge", Len(laz_files)),
                                 Msg("merge_completed", 0)>>
    /\ result' = [kind |-> "OUTPUT_FILE", files |-> 0, features |-> 0]
    /\ pc' = "m_done"
    /\ UNCHANGED <<error, buildVars, deleteVars, confirm_merge, flowVars, layer_crs,
                   laz_files, files, index, progress, credentials, unpack_zip,
                   downloaded_files>>

MRunFailReturns ==
    /\ MergeLoopEnded
    /\ Len(laz_files) >= 2
    /\ calls' = Append(calls, MergeCommand)
    /\ \E partial \in BOOLEAN :
          out_files' = IF partial THEN out_files \cup {output_file} ELSE out_files
    /\ feedback' = feedback \o <<Msg("files_to_merge", Len(laz_files)),
                                 Msg("merge_error", 0)>>
    /\ result' = [kind |-> "OUTPUT_FILE", files |-> 0, features |-> 0]
    /\ pc' = "m_done"
    /\ UNCHANGED <<error, buildVars, deleteVars, confirm_merge, flowVars, layer_crs,
                   laz_files, files, index, progress, credentials, unpack_zip,
                   downloaded_files>>

\* lines 132-154: pdal merge exits non-zero; what it left of the output file
\* is not known
MRunFail ==
    /\ MergeLoopEnded
    /\ Len(laz_files) >= 2
    /\ calls' = Append(calls, MergeCommand)
    /\ \E partial \in BOOLEAN :
          out_files' = IF partial THEN out_files \cup {output_file} ELSE out_files
    /\ feedback' = feedback \o <<Msg("files_to_merge", Len(laz_files)),
                                 Msg("merge_error", 0)>>
    /\ error' = "merge_failed"
    /\ pc' = "m_raised"
    /\ UNCHANGED <<result, buildVars, deleteVars, confirm_merge, flowVars, layer_crs,
                   laz_files, files, index, progress, credentials, unpack_zip,
                   downloaded_files>>

NextMerge ==
    \/ MPreconditions \/ MNullName \/ MSkip \/ MCollect \/ MTooFew
    \/ MRunOk \/ MRunFail

SpecMerge == InitMerge /\ [][NextMerge]_vars

(***************************************************************************)
(* Properties of the merge operation (SpecMerge).                          *)
(***************************************************************************)
\* C12: with the confirmation flag false or the selection empty, the run ends
\* in a precondition error at its first step, and no step of it invokes the
\* merge tool or produces the output file.
C12_MergeGate ==
    [][(~confirm_merge \/ selection = <<>>) =>
          /\ calls' = calls /\ out_files' = out_files
          /\ pc = "m_start" =>
                /\ pc' = "m_raised"
                /\ error' \in {"no_layer", "not_confirmed", "no_selection"}
      ]_vars

\* an unconfirmed run over two selected records with existing files has ended
\* in the error
C12_Witness ==
    /\ pc = "m_raised" /\ error = "not_confirmed" /\ calls = <<>>
    /\ \E i, j \in DOMAIN selection :
          /\ i < j
          /\ Resolvable(attr[selection[i]]) /\ Resolvable(attr[selection[j]])

\* the selected records that resolve to an existing file
ResolvableSelected ==
    {i \in DOMAIN selection : attr[selection[i]] # "" /\ attr[selection[i]] \in disk}

\* C13: a run over a selection of which fewer than two records resolve to an
\* existing file never invokes the merge tool, and when it has ended it has
\* ended in a precondition error.
C13_TooFewIsPreconditionError ==
    Cardinality(ResolvableSelected) < 2 =>
        /\ calls = <<>>
        /\ pc # "m_done"
        /\ pc = "m_raised" =>
              error \in {"no_layer", "not_confirmed", "no_selection", "too_few"}

RECURSIVE ResolvedPaths(_)
\* the paths of the records of sel that resolve to an existing file, in order
ResolvedPaths(sel) ==
    IF sel = <<>> THEN <<>>
    ELSE LET name == attr[Head(sel)]
         IN (IF name # "" /\ name \in disk
             THEN <<[kind |-> "path", dir |-> "folder_path", text |-> name, code |-> 0]>>
             ELSE <<>>) \o ResolvedPaths(Tail(sel))

\* C14: the records taken so far whose file is missing or whose filename is
\* empty were skipped (laz_files holds exactly the others, in selection
\* order); the tool is invoked at most once, with the arguments pdal, merge,
\* the resolved existing paths in selection order, the output path and the
\* a_srs option of the layer's CRS code; and a confirmed run of which at least
\* two records resolve has invoked it when it has ended.
C14_SkipsAndInvokesOnce ==
    /\ pc = "m_loop" => laz_files = ResolvedPaths(SubSeq(selection, 1, sel_pos))
    /\ Len(calls) <= 1
    /\ calls # <<>> =>
          calls[1] = <<Word("pdal"), Word("merge")>> \o ResolvedPaths(selection)
                        \o <<output_file, SrsOption(layer_crs)>>
    /\ (/\ pc \in {"m_raised", "m_done"}
        /\ has_layer /\ confirm_merge
        /\ Cardinality(ResolvableSelected) >= 2) => Len(calls) = 1

\* C15: when the merge tool has exited non-zero, the run has ended in the
\* fatal error raised for it and has returned no result.
C15_MergeFailureIsFatal ==
    HasMsg("merge_error") =>
        /\ pc = "m_raised"
        /\ error = "merge_failed"
        /\ result = NoResult

\* the tool was invoked once and exited non-zero
C15_Witness ==
    /\ HasMsg("merge_error")
    /\ Len(calls) = 1
    /\ pc = "m_raised"

(***************************************************************************)
(* AssignCRSToFolder.processAlgorithm.  The input folder is what           *)
(* os.listdir returns for it, a list of names; the output folder is the    *)
(* set of the files in it.  A progress value is kept as the fraction       *)
(* num / den that (index + 1) / total_files * 100 computes.                *)
(***************************************************************************)
\* what os.listdir may return: up to MaxFiles names with any of the suffixes
Listings ==
    UNION {{[i \in 1..n |-> FileName(i, e[i])] : e \in [1..n -> Exts]} : n \in 0..MaxFiles}

\* line 110: os.path.join(output_folder, f"pipeline_{index}.json"), with the
\* a_srs of the pipeline written to it (lines 103-112)
PipelineFile(i) == [kind |-> "pipeline_{index}.json", name |-> <<>>, n |-> i, a_srs |-> layer_crs]
\* line 98: os.path.join(output_folder, file_name), written by writers.copc
OutputFile(name) == [kind |-> "output", name |-> name, n |-> 0, a_srs |-> layer_crs]
\* ["pdal", "pipeline", pipeline_path]
PipelineCommand(path) == [tool |-> "pdal", command |-> "pipeline", path |-> path]

ProgressFromIndex(i, total) == [num |-> i * 100, den |-> total]

\* line 129: (index + 1) / total_files * 100
Progress(i, total) == [num |-> (i + 1) * 100, den |-> total]

InitAssign ==
    /\ pc = "a_start" /\ feedback = <<>> /\ error = "" /\ result = NoResult
    /\ IdleBuild
    /\ IdleFlow
    /\ has_layer = FALSE /\ layer = {} /\ attr = <<>> /\ selection = <<>>
    /\ folder_exists \in BOOLEAN
    /\ IF folder_exists THEN disk \in Listings ELSE disk = <<>>
    /\ confirm_delete = FALSE
    /\ sel_pos = 0 /\ features_to_delete = <<>> /\ laz_files_deleted = 0
    /\ confirm_merge = FALSE /\ layer_crs \in Codes /\ laz_files = <<>>
    /\ files = <<>> /\ index = 0 /\ progress = <<>>
    /\ credentials = FALSE /\ unpack_zip = FALSE /\ downloaded_files = 0
    /\ calls = <<>> /\ out_files = {}

\* lines 79-94
APreconditions ==
    /\ pc = "a_start"
    /\ IF ~folder_exists
       THEN /\ error' = "no_input_folder" /\ pc' = "a_raised"
            /\ files' = files /\ feedback' = feedback
       ELSE /\ files' = SelectSeq(disk, IsTileNameLower)
            /\ IF files' = <<>>
               THEN /\ error' = "no_files" /\ pc' = "a_raised"
                    /\ feedback' = feedback
               ELSE /\ error' = error /\ pc' = "a_loop"
                    /\ feedback' = Append(feedback, Msg("found", Len(files')))
    /\ index' = 0
    /\ UNCHANGED <<result, buildVars, deleteVars, confirm_merge, flowVars, layer_crs,
                   laz_files, progress, credentials, unpack_zip,
                   downloaded_files, calls, out_files>>

\* lines 96-112: the loop takes files[index + 1] and writes its pipeline file
AWritePipeline ==
    /\ pc = "a_loop"
    /\ index < Len(files)
    /\ feedback' = Append(feedback, Msg("processing", files[index + 1]))
    /\ out_files' = out_files \cup {PipelineFile(index)}
    /\ pc' = "a_run"
    /\ UNCHANGED <<error, result, buildVars, deleteVars, confirm_merge, flowVars, layer_crs,
                   laz_files, files, index, progress, credentials, unpack_zip,
                   downloaded_files, calls>>

\* lines 114-129: pdal pipeline exits with 0
ARunOk ==
    /\ pc = "a_run"
    /\ calls' = Append(calls, PipelineCommand(PipelineFile(index)))
    /\ out_files' = (out_files \cup {OutputFile(files[index + 1])}) \ {PipelineFile(index)}
    /\ feedback' = Append(feedback, Msg("processed", files[index + 1]))
    /\ progress' = Append(progress, Progress(index, Len(files)))
    /\ index' = index + 1
    /\ pc' = "a_loop"
    /\ UNCHANGED <<error, result, buildVars, deleteVars, confirm_merge, flowVars, layer_crs,
                   laz_files, files, credentials, unpack_zip, downloaded_files>>

ARunFailKeepsPipeline ==
    /\ pc = "a_run"
    /\ calls' = Append(calls, PipelineCommand(PipelineFile(index)))
    /\ feedback' = Append(feedback, Msg("pipeline_error", files[index + 1]))
    /\ index' = index + 1
    /\ pc' = "a_loop"
    /\ UNCHANGED <<error, result, buildVars, deleteVars, confirm_merge, flowVars, layer_crs,
                   laz_files, files, progress, credentials, unpack_zip,
                   downloaded_files, out_files>>

\* lines 114-126: pdal pipeline exits non-zero; the finally clause removes the
\* pipeline file and continue skips line 129
ARunFail ==
    /\ pc = "a_run"
    /\ calls' = Append(calls, PipelineCommand(PipelineFile(index)))
    /\ out_files' = out_files \ {PipelineFile(index)}
    /\ feedback' = Append(feedback, Msg("pipeline_error", files[index + 1]))
    /\ index' = index + 1
    /\ pc' = "a_loop"
    /\ UNCHANGED <<error, result, buildVars, deleteVars, confirm_merge, flowVars, layer_crs,
                   laz_files, files, progress, credentials, unpack_zip,
                   downloaded_files>>

\* lines 131-132
AReturn ==
    /\ pc = "a_loop"
    /\ index = Len(files)
    /\ feedback' = Append(feedback, Msg("completed", <<>>))
    /\ result' = [kind |-> "OUTPUT_FOLDER", files |-> 0, features |-> 0]
    /\ pc' = "a_done"
    /\ UNCHANGED <<error, buildVars, deleteVars, toolVars>>

NextAssign == APreconditions \/ AWritePipeline \/ ARunOk \/ ARunFail \/ AReturn

SpecAssign == InitAssign /\ [][NextAssign]_vars

(***************************************************************************)
(* Properties of the Assign-CRS conversion (SpecAssign).                   *)
(***************************************************************************)
\* the pipeline spec files now in the output folder
PipelineFilesLeft == {f \in out_files : f.kind = "pipeline_{index}.json"}

\* C16: a pipeline spec file is in the output folder only while the pipeline
\* tool runs on the file it was written for; it is gone when the loop takes
\* the next file, after a success as after a non-zero exit, and none is left
\* when the run has ended.
C16_PipelineFileRemoved ==
    /\ \A f \in PipelineFilesLeft : pc = "a_run" /\ f.n = index
    /\ pc \in {"a_loop", "a_done", "a_raised"} => PipelineFilesLeft = {}

\* the run has ended after a file that failed and a file that succeeded, and
\* no pipeline spec file is left
C16_Witness ==
    /\ pc = "a_done"
    /\ HasMsg("pipeline_error") /\ HasMsg("processed")
    /\ Len(calls) >= 2
    /\ PipelineFilesLeft = {}

\* C18: a step that reports progress reports one value, (index + 1) / total
\* as a percentage for the item it has just processed; the values reported so
\* far are non-decreasing; and the full value is reported only by the step
\* that processed the last item.
C18_ProgressMonotone ==
    [][progress' # progress =>
          /\ Len(progress') = Len(progress) + 1
          /\ SubSeq(progress', 1, Len(progress)) = progress
          /\ index' = index + 1
          /\ LET v == progress'[Len(progress')]
             IN /\ v.num * Len(files) = (index + 1) * 100 * v.den
                /\ v.num = 100 * v.den => index' = Len(files)
          /\ \A i, j \in DOMAIN progress' :
                i < j => progress'[i].num * progress'[j].den
                            <= progress'[j].num * progress'[i].den
      ]_vars

\* the run has ended with at least two values reported, the last one full
C18_Witness ==
    /\ pc = "a_done"
    /\ Len(progress) >= 2
    /\ progress[Len(progress)].num = 100 * progress[Len(progress)].den

\* C19: one progress value has been reported for every item processed so far,
\* failed or not, and a run that has processed all its files has reported the
\* full value last.
C19_ProgressAfterEveryItem ==
    /\ pc = "a_loop" => Len(progress) = index
    /\ pc = "a_done" =>
          /\ progress # <<>>
          /\ progress[Len(progress)].num = 100 * progress[Len(progress)].den

(***************************************************************************)
(* LazToCopc.processAlgorithm.                                             *)
(***************************************************************************)
\* f.endswith('.laz'), line 68
IsLazName(name) == EndsWith(name, <<".", "l", "a", "z">>)

\* os.path.splitext(name)[0]: the name up to its last dot, the whole name when
\* it has no dot after its first character
SplitExtRoot(name) ==
    LET dots == {i \in 2..Len(name) : name[i] = "."}
    IN IF dots = {} THEN name
       ELSE SubSeq(name, 1, (CHOOSE i \in dots : \A j \in dots : j <= i) - 1)

\* line 88: os.path.join(output_directory, f"{basename}_pipeline.json")
JsonPath(basename) ==
    [kind |-> "{basename}_pipeline.json", name |-> basename, n |-> 0, a_srs |-> None]
\* line 77: os.path.join(output_directory, f"{basename}.copc.laz")
CopcPath(basename) ==
    [kind |-> "{basename}.copc.laz", name |-> basename, n |-> 0, a_srs |-> None]

InitCopc ==
    /\ pc = "c_start" /\ feedback = <<>> /\ error = "" /\ result = NoResult
    /\ IdleBuild
    /\ IdleFlow
    /\ has_layer = FALSE /\ layer = {} /\ attr = <<>> /\ selection = <<>>
    /\ folder_exists \in BOOLEAN
    /\ IF folder_exists THEN disk \in Listings ELSE disk = <<>>
    /\ confirm_delete = FALSE
    /\ sel_pos = 0 /\ features_to_delete = <<>> /\ laz_files_deleted = 0
    /\ confirm_merge = FALSE /\ layer_crs = None /\ laz_files = <<>>
    /\ files = <<>> /\ index = 0 /\ progress = <<>>
    /\ credentials = FALSE /\ unpack_zip = FALSE /\ downloaded_files = 0
    /\ calls = <<>> /\ out_files = {}

\* lines 57-71
CPreconditions ==
    /\ pc = "c_start"
    /\ IF ~folder_exists
       THEN /\ error' = "no_input_folder" /\ pc' = "c_raised"
            /\ laz_files' = laz_files /\ feedback' = feedback /\ result' = result
       ELSE /\ laz_files' = SelectSeq(disk, IsLazName)
            /\ error' = error
            /\ IF laz_files' = <<>>
               THEN /\ pc' = "c_done"
                    /\ feedback' = Append(feedback, Msg("no_laz_files", <<>>))
                    /\ result' = [kind |-> "EMPTY", files |-> 0, features |-> 0]
               ELSE /\ pc' = "c_loop"
                    /\ feedback' = feedback /\ result' = result
    /\ index' = 0
    /\ UNCHANGED <<buildVars, deleteVars, confirm_merge, flowVars, layer_crs, files,
                   progress, credentials, unpack_zip, downloaded_files, calls,
                   out_files>>

\* the basename of the file the loop has taken, line 75
CurBasename == SplitExtRoot(laz_files[index + 1])

\* lines 74-93: the loop takes laz_files[index + 1] and writes its pipeline file
CWritePipeline ==
    /\ pc = "c_loop"
    /\ index < Len(laz_files)
    /\ out_files' = out_files \cup {JsonPath(CurBasename)}
    /\ feedback' = Append(feedback, Msg("processing", laz_files[index + 1]))
    /\ pc' = "c_run"
    /\ UNCHANGED <<error, result, buildVars, deleteVars, confirm_merge, flowVars, layer_crs,
                   laz_files, files, index, progress, credentials, unpack_zip,
                   downloaded_files, calls>>

\* lines 94-103: pdal pipeline returns 0
CRunOk ==
    /\ pc = "c_run"
    /\ calls' = Append(calls, PipelineCommand(JsonPath(CurBasename)))
    /\ out_files' = (out_files \cup {CopcPath(CurBasename)}) \ {JsonPath(CurBasename)}
    /\ feedback' = Append(feedback, Msg("processed", laz_files[index + 1]))
    /\ index' = index + 1
    /\ pc' = "c_loop"
    /\ UNCHANGED <<error, result, buildVars, deleteVars, confirm_merge, flowVars, layer_crs,
                   laz_files, files, progress, credentials, unpack_zip,
                   downloaded_files>>

\* lines 94-98: pdal pipeline returns non-zero; continue skips line 103
CRunFail ==
    /\ pc = "c_run"
    /\ calls' = Append(calls, PipelineCommand(JsonPath(CurBasename)))
    /\ feedback' = Append(feedback, Msg("pipeline_error", laz_files[index + 1]))
    /\ index' = index + 1
    /\ pc' = "c_loop"
    /\ UNCHANGED <<error, result, buildVars, deleteVars, confirm_merge, flowVars, layer_crs,
                   laz_files, files, progress, credentials, unpack_zip,
                   downloaded_files, out_files>>

\* lines 105-106
CReturn ==
    /\ pc = "c_loop"
    /\ index = Len(laz_files)
    /\ feedback' = Append(feedback, Msg("all_processed", <<>>))
    /\ result' = [kind |-> "EMPTY", files |-> 0, features |-> 0]
    /\ pc' = "c_done"
    /\ UNCHANGED <<error, buildVars, deleteVars, toolVars>>

NextCopc == CPreconditions \/ CWritePipeline \/ CRunOk \/ CRunFail \/ CReturn

SpecCopc == InitCopc /\ [][NextCopc]_vars

(***************************************************************************)
(* Properties of the LAZ-to-COPC conversion (SpecCopc).                    *)
(***************************************************************************)
\* C17: a <basename>_pipeline.json is in the output folder only while the
\* pipeline tool runs on the file it was written for; it is removed after a
\* success as after a non-zero exit, and none is left when the run has ended.
C17_JsonFileRemoved ==
    /\ \A f \in out_files :
          f.kind = "{basename}_pipeline.json" =>
              pc = "c_run" /\ f.name = CurBasename
    /\ pc \in {"c_done", "c_raised"} =>
          \A f \in out_files : f.kind # "{basename}_pipeline.json"

(***************************************************************************)
(* DownloadFilesFromFTPS.processAlgorithm.  The output folder is the set   *)
(* of its files, each with what it holds: "old" (there before the run),    *)
(* "new" (a completed download or an unpacked member) or "partial" (opened *)
(* for writing and not completed).  A call on ftps is recorded with its    *)
(* method, its argument and whether it returned.                           *)
(***************************************************************************)
RemoteNames == {"a.laz", "c.zip"}
FetchValues == RemoteNames \cup {"", "NULL"}
\* filename.lower().endswith('.zip'), line 185
IsZipName(name) == name = "c.zip"

\* lines 154-156 and 160-162, 181, 193
FtpCall(method, name, ok) ==
    [method |-> method,
     arg |-> CASE method = "connect" -> "ftp.dataforsyningen.dk:990"
               [] method = "retrbinary" -> "RETR /dhm_danmarks_hoejdemodel/PUNKTSKY/"
               [] OTHER -> "",
     file |-> name, ok |-> ok]

\* the three calls of lines 160-162, in order
SetupMethods == <<"connect", "login", "prot_p">>

\* the output folder after name has been written with content
WriteLocal(folder, name, content) ==
    {f \in folder : f.name # name} \cup {[name |-> name, content |-> content]}

InitFetch ==
    /\ pc = "f_start" /\ feedback = <<>> /\ error = "" /\ result = NoResult
    /\ IdleBuild
    /\ IdleFlow
    /\ has_layer \in BOOLEAN
    /\ IF has_layer
       THEN /\ layer = 1..MaxFeatures
            /\ \E S \in SUBSET (1..MaxFeatures) :
                  /\ selection = Ascending(S)
                  /\ attr \in [1..MaxFeatures -> FetchValues]
                  /\ \A i \in (1..MaxFeatures) \ S : attr[i] = ""
       ELSE layer = {} /\ attr = <<>> /\ selection = <<>>
    /\ folder_exists \in BOOLEAN
    /\ disk = {}
    /\ confirm_delete = FALSE
    /\ sel_pos = 0 /\ features_to_delete = <<>> /\ laz_files_deleted = 0
    /\ confirm_merge = FALSE /\ layer_crs = None /\ laz_files = <<>>
    /\ files = <<>> /\ index = 0 /\ progress = <<>>
    /\ credentials \in [username : {"", "user"}, password : {"", "secret"}]
    /\ unpack_zip \in BOOLEAN
    /\ downloaded_files = 0
    /\ calls = <<>>
    /\ IF folder_exists
       THEN out_files \in {{}, {[name |-> "a.laz", content |-> "old"]}}
       ELSE out_files = {}

\* line 137, negated: username and password are both non-empty
HasCredentials == credentials.username # "" /\ credentials.password # ""

FetchPreconditionErrorNoFolder ==
    IF ~has_layer THEN "no_layer"
    ELSE IF ~HasCredentials THEN "no_credentials"
    ELSE IF selection = <<>> THEN "no_selection"
    ELSE ""

\* lines 127-150: the QgsProcessingException raised before connecting, "" if none
FetchPreconditionError ==
    IF ~has_layer THEN "no_layer"
    ELSE IF ~HasCredentials THEN "no_credentials"
    ELSE IF ~folder_exists THEN "no_output_folder"
    ELSE IF selection = <<>> THEN "no_selection"
    ELSE ""

\* lines 127-158
FPreconditions ==
    /\ pc = "f_start"
    /\ IF FetchPreconditionError # ""
       THEN /\ error' = FetchPreconditionError /\ pc' = "f_raised"
            /\ feedback' = IF has_layer /\ HasCredentials
                           THEN Append(feedback, Msg("password_warning", 0))
                           ELSE feedback
       ELSE /\ error' = error /\ pc' = "f_connect"
            /\ feedback' = feedback \o <<Msg("password_warning", 0),
                                         Msg("processing_selected", Len(selection))>>
    /\ sel_pos' = 0
    /\ UNCHANGED <<result, buildVars, has_layer, layer, attr, selection,
                   folder_exists, disk, confirm_delete, features_to_delete,
                   laz_files_deleted, toolVars>>

\* lines 159-163 and 167: connect, login and prot_p all return
FConnectOk ==
    /\ pc = "f_connect"
    /\ calls' = calls \o [i \in 1..3 |-> FtpCall(SetupMethods[i], "", TRUE)]
    /\ feedback' = Append(feedback, Msg("connected", 0))
    /\ downloaded_files' = 0
    /\ pc' = "f_loop"
    /\ UNCHANGED <<error, result, buildVars, deleteVars, confirm_merge, flowVars, layer_crs,
                   laz_files, files, index, progress, credentials, unpack_zip,
                   out_files>>

FConnectFailContinues ==
    /\ pc = "f_connect"
    /\ \E failing \in 1..3 :
          calls' = calls \o [i \in 1..failing |->
                                FtpCall(SetupMethods[i], "", i # failing)]
    /\ feedback' = Append(feedback, Msg("connected", 0))
    /\ downloaded_files' = 0
    /\ pc' = "f_loop"
    /\ UNCHANGED <<error, result, buildVars, deleteVars, confirm_merge, flowVars, layer_crs,
                   laz_files, files, index, progress, credentials, unpack_zip,
                   out_files>>

\* lines 159-165: one of the three calls raises; the calls after it are not made
FConnectFail ==
    /\ pc = "f_connect"
    /\ \E failing \in 1..3 :
          calls' = calls \o [i \in 1..failing |->
                                FtpCall(SetupMethods[i], "", i # failing)]
    /\ error' = "connect_failed"
    /\ pc' = "f_raised"
    /\ UNCHANGED <<feedback, result, buildVars, deleteVars, confirm_merge, flowVars,
                   layer_crs, laz_files, files, index, progress, credentials,
                   unpack_zip, downloaded_files, out_files>>

InFetchLoop == pc = "f_loop" /\ sel_pos < Len(selection)
\* line 170: not filename, true of the empty string and of NULL
NoFilename(name) == name \in {"", "NULL"}

\* lines 168-172
FSkipNoName ==
    /\ InFetchLoop
    /\ NoFilename(CurName)
    /\ feedback' = Append(feedback, Msg("no_filename", CurFeature))
    /\ sel_pos' = sel_pos + 1
    /\ UNCHANGED <<pc, error, result, buildVars, has_layer, layer, attr, selection,
                   folder_exists, disk, confirm_delete, features_to_delete,
                   laz_files_deleted, toolVars>>

\* lines 174-180 and 190-191: open(local_filepath, "wb") raises
FOpenFail ==
    /\ InFetchLoop
    /\ ~NoFilename(CurName)
    /\ feedback' = feedback \o <<Msg("downloading", CurFeature),
                                 Msg("download_failed", CurFeature)>>
    /\ sel_pos' = sel_pos + 1
    /\ UNCHANGED <<pc, error, result, buildVars, has_layer, layer, attr, selection,
                   folder_exists, disk, confirm_delete, features_to_delete,
                   laz_files_deleted, toolVars>>

FRetrFailCounts ==
    /\ InFetchLoop
    /\ ~NoFilename(CurName)
    /\ out_files' = WriteLocal(out_files, CurName, "partial")
    /\ calls' = Append(calls, FtpCall("retrbinary", CurName, FALSE))
    /\ feedback' = feedback \o <<Msg("downloading", CurFeature),
                                 Msg("download_failed", CurFeature)>>
    /\ downloaded_files' = downloaded_files + 1
    /\ sel_pos' = sel_pos + 1
    /\ UNCHANGED <<pc, error, result, buildVars, has_layer, layer, attr, selection,
                   folder_exists, disk, confirm_delete, features_to_delete,
                   laz_files_deleted, confirm_merge, flowVars, layer_crs, laz_files, files,
                   index, progress, credentials, unpack_zip>>

FRetrFailKeepsLocal ==
    /\ InFetchLoop
    /\ ~NoFilename(CurName)
    /\ out_files' = out_files
    /\ calls' = Append(calls, FtpCall("retrbinary", CurName, FALSE))
    /\ feedback' = feedback \o <<Msg("downloading", CurFeature),
                                 Msg("download_failed", CurFeature)>>
    /\ sel_pos' = sel_pos + 1
    /\ UNCHANGED <<pc, error, result, buildVars, has_layer, layer, attr, selection,
                   folder_exists, disk, confirm_delete, features_to_delete,
                   laz_files_deleted, confirm_merge, flowVars, layer_crs, laz_files, files,
                   index, progress, credentials, unpack_zip, downloaded_files>>

\* lines 174-181 and 190-191: the local file is opened for writing, which
\* creates or empties it, and retrbinary raises
FRetrFail ==
    /\ InFetchLoop
    /\ ~NoFilename(CurName)
    /\ out_files' = WriteLocal(out_files, CurName, "partial")
    /\ calls' = Append(calls, FtpCall("retrbinary", CurName, FALSE))
    /\ feedback' = feedback \o <<Msg("downloading", CurFeature),
                                 Msg("download_failed", CurFeature)>>
    /\ sel_pos' = sel_pos + 1
    /\ UNCHANGED <<pc, error, result, buildVars, has_layer, layer, attr, selection,
                   folder_exists, disk, confirm_delete, features_to_delete,
                   laz_files_deleted, confirm_merge, flowVars, layer_crs, laz_files, files,
                   index, progress, credentials, unpack_zip, downloaded_files>>

\* lines 174-189: the download completes; a zip file is unpacked when asked
FRetrOk ==
    /\ InFetchLoop
    /\ ~NoFilename(CurName)
    /\ calls' = Append(calls, FtpCall("retrbinary", CurName, TRUE))
    /\ downloaded_files' = downloaded_files + 1
    /\ IF unpack_zip /\ IsZipName(CurName)
       THEN /\ out_files' = WriteLocal(WriteLocal(out_files, CurName, "new"),
                                       "member of c.zip", "new")
            /\ feedback' = feedback \o <<Msg("downloading", CurFeature),
                                         Msg("downloaded", CurFeature),
                                         Msg("unpacked", CurFeature)>>
       ELSE /\ out_files' = WriteLocal(out_files, CurName, "new")
            /\ feedback' = feedback \o <<Msg("downloading", CurFeature),
                                         Msg("downloaded", CurFeature)>>
    /\ sel_pos' = sel_pos + 1
    /\ UNCHANGED <<pc, error, result, buildVars, has_layer, layer, attr, selection,
                   folder_exists, disk, confirm_delete, features_to_delete,
                   laz_files_deleted, confirm_merge, flowVars, layer_crs, laz_files, files,
                   index, progress, credentials, unpack_zip>>

\* lines 174-191: the download completes and is counted, then ZipFile or
\* extractall raises
FUnpackFail ==
    /\ InFetchLoop
    /\ ~NoFilename(CurName)
    /\ unpack_zip /\ IsZipName(CurName)
    /\ calls' = Append(calls, FtpCall("retrbinary", CurName, TRUE))
    /\ downloaded_files' = downloaded_files + 1
    /\ out_files' = WriteLocal(out_files, CurName, "new")
    /\ feedback' = feedback \o <<Msg("downloading", CurFeature),
                                 Msg("downloaded", CurFeature),
                                 Msg("download_failed", CurFeature)>>
    /\ sel_pos' = sel_pos + 1
    /\ UNCHANGED <<pc, error, result, buildVars, has_layer, layer, attr, selection,
                   folder_exists, disk, confirm_delete, features_to_delete,
                   laz_files_deleted, confirm_merge, flowVars, layer_crs, laz_files, files,
                   index, progress, credentials, unpack_zip>>

FetchLoopEnded == pc = "f_loop" /\ sel_pos = Len(selection)

\* lines 193-196; ftps.quit() is taken to return, like every library call
\* whose failure the code does not provide for
FQuit ==
    /\ FetchLoopEnded
    /\ calls' = Append(calls, FtpCall("quit", "", TRUE))
    /\ feedback' = Append(feedback, Msg("download_complete", downloaded_files))
    /\ result' = [kind |-> "DOWNLOADED_FILES", files |-> downloaded_files,
                  features |-> 0]
    /\ pc' = "f_done"
    /\ UNCHANGED <<error, buildVars, deleteVars, confirm_merge, flowVars, layer_crs,
                   laz_files, files, index, progress, credentials, unpack_zip,
                   downloaded_files, out_files>>

NextFetch ==
    \/ FPreconditions \/ FConnectOk \/ FConnectFail \/ FSkipNoName \/ FOpenFail
    \/ FRetrFail \/ FRetrOk \/ FUnpackFail \/ FQuit

SpecFetch == InitFetch /\ [][NextFetch]_vars

(***************************************************************************)
(* Properties of the fetch operation (SpecFetch).                          *)
(***************************************************************************)
\* the positions in calls of the calls of a method
CallsOf(method) == {i \in DOMAIN calls : calls[i].method = method}
SetupFailed ==
    \E i \in DOMAIN calls :
        calls[i].method \in {"connect", "login", "prot_p"} /\ ~calls[i].ok

\* C20: connect, login and prot_p are called at most once each, as the first,
\* second and third call of the run; every download comes after all three
\* have returned, and a run that has reached its loop has made each of them
\* exactly once; when one of them has failed the run has ended in the fatal
\* connection error, no download was attempted, nothing was counted and no
\* local file was created or written.
C20_ConnectOnceOrFatal ==
    /\ CallsOf("connect") \subseteq {1}
    /\ CallsOf("login") \subseteq {2}
    /\ CallsOf("prot_p") \subseteq {3}
    /\ (pc \in {"f_loop", "f_done"} \/ CallsOf("retrbinary") # {}) =>
          /\ Len(calls) >= 3
          /\ calls[1].method = "connect" /\ calls[1].ok
          /\ calls[2].method = "login" /\ calls[2].ok
          /\ calls[3].method = "prot_p" /\ calls[3].ok
    /\ SetupFailed =>
          /\ pc = "f_raised" /\ error = "connect_failed"
          /\ result = NoResult
          /\ CallsOf("retrbinary") = {}
          /\ downloaded_files = 0
          /\ \A f \in out_files : f.content = "old"

\* the login of a run over a selected record with a filename has failed, and
\* the run has ended
C20_Witness ==
    /\ pc = "f_raised"
    /\ Len(calls) = 2 /\ calls[2].method = "login" /\ ~calls[2].ok
    /\ \E i \in DOMAIN selection : attr[selection[i]] = "a.laz"

\* the retrievals, among the calls of s, that completed without error
CompletedRetrievals(s) ==
    Cardinality({i \in DOMAIN s : s[i].method = "retrbinary" /\ s[i].ok})

C25_FetchPreconditions ==
    [][(\/ credentials.username = "" \/ credentials.password = ""
        \/ ~folder_exists \/ selection = <<>>) =>
          /\ calls' = calls /\ out_files' = out_files
          /\ pc = "f_start" =>
                /\ pc' = "f_raised"
                /\ error' \in {"no_layer", "no_credentials", "no_output_folder",
                               "no_selection"}
      ]_vars

\* a run with credentials and a selected filename but no output folder has
\* ended in the error, with no call made
C25_Witness ==
    /\ pc = "f_raised" /\ error = "no_output_folder" /\ calls = <<>>
    /\ \E i \in DOMAIN selection : attr[selection[i]] = "a.laz"

\* C29: the step of a failed retrieval leaves in the output folder exactly one
\* file with the name of the record, which does not hold what a file of that
\* name held before, and does not count the record.
C29_FailedRetrievalTruncates ==
    [][(/\ InFetchLoop
        /\ Len(calls') = Len(calls) + 1
        /\ calls'[Len(calls')].method = "retrbinary"
        /\ ~calls'[Len(calls')].ok) =>
          LET name == attr[selection[sel_pos + 1]]
          IN /\ calls'[Len(calls')].file = name
             /\ \E f \in out_files' : f.name = name
             /\ \A f \in out_files' : f.name = name => f.content = "partial"
             /\ downloaded_files' = downloaded_files
      ]_vars

\* the retrieval of a.laz failed; a file a.laz is in the output folder, not
\* completed, and the run has returned 0
C29_Witness ==
    /\ pc = "f_done"
    /\ result.files = 0
    /\ [name |-> "a.laz", content |-> "partial"] \in out_files
    /\ \E i \in DOMAIN calls : calls[i].file = "a.laz" /\ ~calls[i].ok

(***************************************************************************)
(* Further properties of the delete operation (SpecDelete).                *)
(***************************************************************************)
\* the names of the files this run has removed
RemovedFiles ==
    {attr[feedback[m].file] : m \in {n \in DOMAIN feedback : feedback[n].kind = "deleted_file"}}

\* C22: a record is gone from the layer only if its file was removed before
\* by this run, and when the run has ended no record still in the layer names
\* a file that the run removed.
C22_FileFirstRecordSecond ==
    /\ \A id \in (1..MaxFeatures) \ layer :
          has_layer => attr[id] \in RemovedFiles /\ attr[id] \notin disk
    /\ pc \in {"d_done", "d_raised"} =>
          \A id \in layer : attr[id] \notin RemovedFiles

\* C28: a step of a delete run removes from the folder only the file named by
\* a selected record and from the layer only selected records, so the records
\* outside the selection stay; and while no file removal has succeeded no
\* step changes the layer.
C28_DeleteFrame ==
    [][/\ disk' \subseteq disk
       /\ (disk \ disk') \subseteq {attr[selection[i]] : i \in DOMAIN selection}
       /\ layer' \subseteq layer
       /\ (layer \ layer') \subseteq {selection[i] : i \in DOMAIN selection}
       /\ (\A m \in DOMAIN feedback : feedback[m].kind # "deleted_file") =>
             layer' = layer
      ]_vars

\* a confirmed run over a selection has returned without removing a file, and
\* the layer still has all its records
C28_Witness ==
    /\ pc = "d_done"
    /\ selection # <<>>
    /\ result.files = 0
    /\ layer = 1..MaxFeatures

(***************************************************************************)
(* Delete and merge side by side: a run of either algorithm.               *)
(***************************************************************************)
InitGates == InitDelete \/ InitMerge
NextGates == NextDelete \/ NextMerge
SpecGates == InitGates /\ [][NextGates]_vars

\* C30: with the selection empty and the confirmation flag false (and the
\* checks before these two passed), a delete run has ended in the
\* no-selection error and a merge run in the not-confirmed error; either has
\* ended at its first step with that one error, no report, no file removed,
\* no record deleted and no tool invoked.
C30_PreconditionPrecedence ==
    /\ (/\ pc \in {"d_loop", "d_raised", "d_done"}
        /\ has_layer /\ folder_exists
        /\ selection = <<>> /\ ~confirm_delete) =>
          /\ pc = "d_raised" /\ error = "no_selection"
          /\ feedback = <<>> /\ sel_pos = 0
          /\ features_to_delete = <<>> /\ laz_files_deleted = 0
    /\ (/\ pc \in {"m_loop", "m_raised", "m_done"}
        /\ has_layer
        /\ selection = <<>> /\ ~confirm_merge) =>
          /\ pc = "m_raised" /\ error = "not_confirmed"
          /\ feedback = <<>> /\ sel_pos = 0
          /\ laz_files = <<>> /\ calls = <<>> /\ out_files = {}

\* a delete run with a file in the folder, nothing selected and no
\* confirmation has ended in the no-selection error
C30_Witness ==
    /\ pc = "d_raised" /\ error = "no_selection"
    /\ has_layer /\ folder_exists /\ ~confirm_delete
    /\ selection = <<>>
    /\ disk # {}

(***************************************************************************)
(* Further properties of the metadata extraction (SpecExtract).            *)
(***************************************************************************)
\* the positions of the non-empty candidates of wkt_sources
NonEmptySources == {i \in DOMAIN wkt_sources : wkt_sources[i] # <<>>}

\* C23: when the scan of the candidates has ended, the EPSG code and the axis
\* order are those of the first non-empty candidate alone (no code and no
\* axis order when every candidate is empty).
C23_FirstNonEmptyCandidate ==
    pc \in {"x_boundary", "x_done", "x_raised"} =>
        IF NonEmptySources = {}
        THEN epsg = None /\ axis_order = <<>>
        ELSE LET first == CHOOSE i \in NonEmptySources :
                              \A j \in NonEmptySources : i <= j
                 matches == EpsgMatches(wkt_sources[first])
             IN /\ epsg = IF matches = <<>> THEN None ELSE matches[Len(matches)]
                /\ axis_order = extract_axis_order(wkt_sources[first])

(***************************************************************************)
(* Further properties of the catalog build (Spec).                         *)
(***************************************************************************)
\* the number of messages of a kind reported so far in this build
Count(kind) == Cardinality({m \in DOMAIN feedback : feedback[m].kind = kind})
\* the files this build has skipped, each with one report
Skipped ==
    Count("pdal_error") + Count("invalid_geometry") + Count("missing_crs")
        + Count("crs_mismatch")

\* C24: no two records of the catalog have the same filename, every record
\* has the name of a file the build has scanned, and between two files, as in
\* the written catalog, the records and the skipped files together are the
\* supported files scanned (all but the file in progress while one is).
C24_OneRecordPerFile ==
    /\ \A i, j \in DOMAIN writer.features :
          writer.features[i].filename = writer.features[j].filename => i = j
    /\ \A i \in DOMAIN writer.features :
          \E m \in DOMAIN feedback :
              feedback[m] = [kind |-> "processing", file |-> writer.features[i].filename]
    /\ pc \in {"b_list", "b_write", "b_done"} =>
          Len(writer.features) + Skipped = Count("processing")
    /\ pc \in {"b_pdal", "b_scan", "b_boundary", "b_accept", "b_raised"} =>
          Len(writer.features) + Skipped = Count("processing") - 1
    /\ pc = "b_done" /\ gpkg.written = 1 => gpkg.features = writer.features

\* a catalog of two records was written by a build that skipped a third file
C24_Witness ==
    /\ pc = "b_done"
    /\ gpkg.written = 1
    /\ Len(gpkg.features) = 2
    /\ Skipped = 1

\* C27: an invocation of the build starts with the catalog CRS unset, and the
\* catalog CRS is the EPSG code of the first record the invocation accepted.
C27_CrsStartsUnset ==
    /\ (pc = "b_list" /\ idx = 0) => first_crs = None
    /\ writer.features # <<>> => first_crs = writer.features[1].epsg

(***************************************************************************)
(* GeoFLow.processAlgorithm.  The data source URI is kept as its file path *)
(* and its layername= part ("" when it has none); an attribute value is    *)
(* kept with its Python type and its str().                                *)
(***************************************************************************)
FlowValues ==
    {[type |-> "str", text |-> "12"], [type |-> "int", text |-> "12"],
     [type |-> "NULL", text |-> "NULL"]}
Sources ==
    [path : {"footprints.gpkg", "footprints.shp"}, layername : {"", "buildings"},
     exists : BOOLEAN]
\* what the control flow depends on among the parameters: PROCESS_SELECTION,
\* ATTRIBUTE_FIELD, and OUTPUT_GPKG as the state of that file (there already,
\* or absent and then created or not by QgsVectorFileWriter)
ParameterSets ==
    [process_selection : {0, 1}, attribute_field_index : {-1, 0},
     output_gpkg : {"exists", "created", "not created"}]

InitFlow ==
    /\ pc = "g_start" /\ feedback = <<>> /\ error = "" /\ result = NoResult
    /\ IdleBuild
    /\ has_layer \in BOOLEAN
    /\ IF has_layer
       THEN /\ layer = 1..MaxFeatures
            /\ attr \in [1..MaxFeatures -> FlowValues]
            /\ \E S \in SUBSET (1..MaxFeatures) : selection = Ascending(S)
            /\ data_source \in Sources
       ELSE layer = {} /\ attr = <<>> /\ selection = <<>> /\ data_source = NoSource
    /\ folder_exists = FALSE /\ disk = {} /\ confirm_delete = FALSE
    /\ sel_pos = 0 /\ features_to_delete = <<>> /\ laz_files_deleted = 0
    /\ confirm_merge = FALSE /\ layer_crs \in {None} \cup Codes /\ laz_files = <<>>
    /\ files = <<>> /\ index = 0 /\ progress = <<>>
    /\ credentials = FALSE /\ unpack_zip = FALSE /\ downloaded_files = 0
    /\ calls = <<>> /\ out_files = {}
    /\ parameters \in ParameterSets
    /\ features = <<>>

\* lines 165-232: the QgsProcessingException raised before the loop, "" if none
FlowPreconditionError ==
    IF ~has_layer THEN "no_layer"
    ELSE IF data_source.path # "footprints.gpkg" THEN "not_geopackage"
    ELSE IF data_source.layername = "" THEN "no_layer_name"
    ELSE IF layer_crs <= 0 THEN "invalid_epsg"
    ELSE IF parameters.attribute_field_index < 0 THEN "attribute_out_of_range"
    ELSE IF ~data_source.exists THEN "no_footprint_file"
    ELSE IF parameters.output_gpkg = "not created" THEN "gpkg_not_created"
    ELSE ""

\* lines 236-237: list(layer.selectedFeatures() if process_selection == 1
\* else layer.getFeatures())
ChosenFeatures ==
    IF parameters.process_selection = 1 THEN selection ELSE Ascending(layer)

\* lines 180, 188, 196, 217: the messages pushed before the check that raised e
FlowInfo(e) ==
    (IF e \in {"no_layer", "not_geopackage", "no_layer_name"} THEN <<>>
     ELSE <<Msg("layer_name", 0)>>)
    \o (IF e \in {"no_layer", "not_geopackage", "no_layer_name", "invalid_epsg"}
        THEN <<>> ELSE <<Msg("selected_crs", 0)>>)
    \o (IF e \in {"", "no_footprint_file", "gpkg_not_created"}
        THEN <<Msg("selected_attribute", 0)>> ELSE <<>>)
    \o (IF e \in {"", "gpkg_not_created"} /\ parameters.output_gpkg # "exists"
        THEN <<Msg("creating_gpkg", 0)>> ELSE <<>>)

\* lines 165-237
GPreconditions ==
    /\ pc = "g_start"
    /\ IF FlowPreconditionError # ""
       THEN /\ error' = FlowPreconditionError /\ pc' = "g_raised"
            /\ features' = features
       ELSE /\ error' = error /\ pc' = "g_loop"
            /\ features' = ChosenFeatures
    /\ out_files' = IF FlowPreconditionError = "" /\ parameters.output_gpkg = "created"
                    THEN {"output_gpkg"} ELSE out_files
    /\ feedback' = FlowInfo(FlowPreconditionError)
    /\ index' = 0
    /\ UNCHANGED <<result, buildVars, deleteVars, confirm_merge,
                   layer_crs, laz_files, files, progress, credentials,
                   unpack_zip, downloaded_files, calls, data_source, parameters>>

InFlowLoop == pc = "g_loop" /\ index < Len(features)

\* lines 240-265: the command built for a feature, with whether it returned 0.
\* sql_query quotes the value when it is a str (line 245); the output files
\* are named byg_<str(value)> (lines 248-250)
FlowCommand(id, ok) ==
    [input_footprint_layer |-> data_source.layername,
     output_ogr_EPSG |-> layer_crs,
     quoted |-> attr[id].type = "str",
     value |-> attr[id].text,
     output |-> attr[id].text,
     ok |-> ok]

\* lines 240-272: the executable returns 0
GRunOk ==
    /\ InFlowLoop
    /\ calls' = Append(calls, FlowCommand(features[index + 1], TRUE))
    /\ feedback' = Append(feedback, Msg("running", features[index + 1]))
    /\ index' = index + 1
    /\ UNCHANGED <<pc, error, result, buildVars, deleteVars, confirm_merge,
                   layer_crs, laz_files, files, progress, credentials,
                   unpack_zip, downloaded_files, out_files, flowVars>>

GRunFailRaises ==
    /\ InFlowLoop
    /\ calls' = Append(calls, FlowCommand(features[index + 1], FALSE))
    /\ feedback' = feedback \o <<Msg("running", features[index + 1]),
                                 Msg("geof_error", features[index + 1])>>
    /\ index' = index + 1
    /\ pc' = "g_raised"
    /\ error' = "geof_failed"
    /\ UNCHANGED <<result, buildVars, deleteVars, confirm_merge,
                   layer_crs, laz_files, files, progress, credentials,
                   unpack_zip, downloaded_files, out_files, flowVars>>

\* lines 240-274: the executable exits non-zero
GRunFail ==
    /\ InFlowLoop
    /\ calls' = Append(calls, FlowCommand(features[index + 1], FALSE))
    /\ feedback' = feedback \o <<Msg("running", features[index + 1]),
                                 Msg("geof_error", features[index + 1])>>
    /\ index' = index + 1
    /\ UNCHANGED <<pc, error, result, buildVars, deleteVars, confirm_merge,
                   layer_crs, laz_files, files, progress, credentials,
                   unpack_zip, downloaded_files, out_files, flowVars>>

\* lines 276-277
GReturn ==
    /\ pc = "g_loop"
    /\ index = Len(features)
    /\ feedback' = Append(feedback, Msg("complete", 0))
    /\ result' = [kind |-> "EMPTY", files |-> 0, features |-> 0]
    /\ pc' = "g_done"
    /\ UNCHANGED <<error, buildVars, deleteVars, toolVars>>

NextFlow == GPreconditions \/ GRunOk \/ GRunFail \/ GReturn

SpecFlow == InitFlow /\ [][NextFlow]_vars

(***************************************************************************)
(* Properties of the reconstruction batch (SpecFlow).                      *)
(***************************************************************************)
\* the features of the chosen set: the selected ones when that option is
\* chosen, else all features of the layer, by ascending id
ChosenSet ==
    IF parameters.process_selection = 1 THEN selection
    ELSE [i \in 1..Cardinality(layer) |->
             CHOOSE id \in layer : Cardinality({j \in layer : j < id}) = i - 1]

\* C26: once the preconditions have passed, the invocations made so far are
\* one for each feature of the chosen set taken so far, in order, each with
\* the attribute value of its feature; a step of the loop, non-zero exit
\* included, raises nothing and goes on to the next feature; a non-zero exit
\* is reported; and after the last feature the run returns.
C26_OncePerFeature ==
    [][/\ pc \in {"g_loop", "g_done"} =>
            /\ features = ChosenSet
            /\ Len(calls) = index
            /\ \A i \in DOMAIN calls : calls[i].value = attr[ChosenSet[i]].text
       /\ (pc = "g_loop" /\ index < Len(ChosenSet)) =>
            /\ pc' = "g_loop" /\ error' = ""
            /\ index' = index + 1
            /\ Len(calls') = Len(calls) + 1
            /\ ~calls'[Len(calls')].ok =>
                  feedback'[Len(feedback')] = [kind |-> "geof_error",
                                               file |-> ChosenSet[index + 1]]
       /\ (pc = "g_loop" /\ index = Len(ChosenSet)) =>
            /\ pc' = "g_done" /\ error' = ""
            /\ Len(calls') = Len(ChosenSet)
      ]_vars

\* a run over the selected features only, two of three, has returned after a
\* non-zero exit for the first and an invocation for the second
C26_Witness ==
    /\ pc = "g_done"
    /\ parameters.process_selection = 1
    /\ Len(selection) = 2
    /\ Len(calls) = 2
    /\ ~calls[1].ok /\ calls[2].ok

====
